---- MODULE Spec2Model ----
(***************************************************************************)
(* Historical price resolution: HistoricalPriceService.get_price_history   *)
(* (backend/app/services/price_fetcher.py) together with the part of       *)
(* PriceCacheService.get_price_history it calls                            *)
(* (backend/app/services/price_cache_service.py).                          *)
(*                                                                         *)
(* All calls ask for the same (fetch_symbol, effective_start,              *)
(* effective_end) key, of a symbol that has a Yahoo ticker.  A price       *)
(* series is abstracted to the tag of the source that produced it, and a   *)
(* failure's timestamp to its age in seconds.                              *)
(*                                                                         *)
(* Spec is the application as deployed: one caller per service instance,   *)
(* a new instance for every API request (ApiRequest), time passing (Tick). *)
(* SharedSpec is one instance called by the threads of Threads at once.    *)
(***************************************************************************)
EXTENDS Integers, Sequences, FiniteSets, TLC

\* ---- bounds of the model ------------------------------------------------
NThreads == 2
MaxFailures == 4
MaxFaulty == 1
\* the most transactions with a positive quantity the identifier has
MaxPoints == 2
\* the dates of the window the cache service is asked for
NDates == 1
\* the age of a verification, in steps of the staleness policy: 0 is within
\* the hour, 1 within the day, 2 more than a day
MaxAge == 2
\* the most rows of a cached series handed to _is_cache_fresh
MaxRows == 2
\* the calendar days, 1..MaxDay, that cached rows and requested windows lie in
MaxDay == 4
\* the most chunks the backfill of a requested window needs
MaxChunks == 2

\* ---- constants of the program -------------------------------------------
BreakerThreshold == 3
Cooldown == 60
MaxAttempts == 2
PriorityFetchDays == 365
BackfillChunkDays == 365

Threads == 1..NThreads
Sources == {"nav", "yahoo", "alt", "scraped"}
\* The tiers with the first two exchanged.
TierOrderYahooFirst == <<"yahoo", "nav", "alt", "scraped">>
TierOrder == <<"nav", "yahoo", "alt", "scraped">>
CacheOrder == <<"yahoo", "alt", "scraped", "nav", "interpolated">>
Tags == {CacheOrder[i] : i \in 1..Len(CacheOrder)}
\* The clock advances in steps of half a cooldown.
ClockStep == Cooldown \div 2

\* What a provider does when an adapter asks it: data, no data, a transient
\* failure raised inside the adapter's try block (timeout, malformed
\* response, rate-limit signal), or a fault that escapes the adapter's
\* fetch (the scraper's browser launch, which is outside its try block; an
\* injected adapter that raises, as the unit tests inject yahoo_fetcher).
Conditions == {"ok", "nodata", "transient", "escape"}

VARIABLES
    pc,          \* position of each thread in get_price_history
    idx,         \* number of the tier the call is at
    sig,         \* the Event a waiting thread holds is set
    owed,        \* the source tag of the pair returned by the call that set it
    resultCache, \* self._cache[cache_key]: "absent" or the stored source tag
    inflight,    \* self._inflight[cache_key]: present?, its Event set?
    failures,    \* self._failures[(fetch_symbol, src)] = (count, last_ts), with
                 \* last_ts kept as the age time.time() - last_ts, which
                 \* stops growing at the cooldown
    db,          \* price_history rows of the window, per source tag: who fetched them
    trace,       \* this call's tier walk: <<[src, out]>>
    cscr,        \* this call made the cache service scrape
    peer,        \* while this call was on its way to the providers (past the
                 \* result-cache check, not waiting for another call), a call
                 \* that overlapped it ended after fetching from a provider
    res,         \* the (series, source) pair this call is about to return
    seen,        \* the count an except clause has read from self._failures
                 \* and not yet written back
    table,       \* price_history rows of one (symbol, ticker, source), each
                 \* with its date, price and the age of last_verified_at
    store,       \* each worker's open _store_price_data transaction, and
                 \* how its last cache-service operation ended
    args,        \* the arguments, and the locals, of a function that is
                 \* called on its own
    ret          \* <<what it returned>>, <<>> before the call

vars == <<pc, idx, sig, owed, resultCache, inflight, failures, db, trace, cscr, peer, res, seen,
          table, store, args, ret>>

NoResult == [via |-> "-", src |-> "-"]
NoEntry == [present |-> FALSE, set |-> FALSE]
\* self._failures.get(key, (0, 0.0)): no failure, last_ts long ago
NoFailure == [count |-> 0, age |-> Cooldown]

\* The two workers that use the price_history table, each with a database
\* session of its own; a worker's prices carry its name.
Workers == {"a", "b"}
\* The dates of the window: NDates is today, the others lie in the last week.
Dates == 1..NDates
Rows == [date : Dates, price : Workers, age : 0..MaxAge]
Outcomes == {"-", "committed", "rolled_back", "stale", "read"}
NoStore == [pc |-> "idle", todo |-> {}, ins |-> {}, upd |-> {}, since |-> 0,
            raced |-> FALSE, outcome |-> "-"]

\* ---- adapters -----------------------------------------------------------
\* YahooFinanceFetcher.fetch, SecondaryPriceFetcher.fetch, ToshinNavFetcher.fetch
\* and YahooScraperFetcher.fetch: every exception raised inside the try block
\* is caught and turned into None.
AdapterFetch(src, cond) ==
    CASE cond = "ok" -> "data"
      [] cond = "nodata" -> "none"
      [] cond = "transient" -> "none"
      [] cond = "escape" -> "raises"

\* _with_retry: the first attempt that does not raise decides; the exception
\* of the last attempt propagates.
RECURSIVE WithRetry(_, _, _)
WithRetry(src, conds, attempt) ==
    LET out == AdapterFetch(src, conds[attempt])
    IN  IF out # "raises" THEN out
        ELSE IF attempt >= MaxAttempts THEN "raises"
        ELSE WithRetry(src, conds, attempt + 1)

\* ---- circuit breaker ----------------------------------------------------
\* A breaker that stays open once it has tripped.
IsOpenForGood(f, src) == f[src].count >= BreakerThreshold

\* _is_open(src)
IsOpen(f, src) ==
    f[src].count >= BreakerThreshold /\ f[src].age < Cooldown

\* An except clause that records nothing.
RecordNothing(f, src) == f

\* self._failures[(fetch_symbol, src)] = (count + 1, time.time())
RecordFailure(f, src) ==
    [f EXCEPT ![src] = [count |-> f[src].count + 1, age |-> 0]]

\* Failures recorded in self._failures, over all sources (the model stops
\* adapters from raising once MaxFailures are on record).
RECURSIVE SumCounts(_, _)
SumCounts(f, S) ==
    IF S = {} THEN 0
    ELSE LET s == CHOOSE x \in S : TRUE IN f[s].count + SumCounts(f, S \ {s})

\* ---- the persistent cache -----------------------------------------------
\* A store without the rollback: the rows stay whether or not the
\* transaction commits.
StoreWithoutRollback(d, tag, fetcher, ok) ==
    [d EXCEPT ![tag] = d[tag] \cup {fetcher}]

\* _store_price_data: upsert the batch under the tag; an exception rolls the
\* batch back and is swallowed.
StorePriceData(d, tag, fetcher, ok) ==
    IF ok THEN [d EXCEPT ![tag] = d[tag] \cup {fetcher}] ELSE d

\* A fallback that writes the interpolated series to the price_history
\* table under the tag 'interpolated'.
StoreInterpolated(d) == [d EXCEPT !["interpolated"] = @ \cup {"interpolator"}]

\* "Do NOT store interpolated data in DB cache; keep it in-process only":
\* the interpolation fallback hands nothing to _store_price_data.
KeepInProcess(d) == d

\* An interpolator that makes a series out of no known point.
InterpolateFromNothing(knownPoints) ==
    IF knownPoints >= 0 THEN "data" ELSE "none"

\* LinearInterpolator.interpolate: knownPoints is the number of transactions
\* with quantity > 0; one gives a constant series, two or more a linear
\* one, none gives None.
InterpolatorInterpolate(knownPoints) ==
    IF knownPoints >= 1 THEN "data" ELSE "none"

TypeOK ==
    /\ pc \in [Threads -> {"idle", "register", "wait", "woke", "cache", "tier",
                           "except", "interp", "pop"}]
    /\ idx \in [Threads -> 0..5]
    /\ sig \in [Threads -> BOOLEAN]
    /\ owed \in [Threads -> Tags \cup {"none", "-"}]
    /\ resultCache \in {"absent"} \cup Tags
    /\ inflight \in [present : BOOLEAN, set : BOOLEAN]
    /\ failures \in [Sources -> [count : 0..MaxFailures, age : 0..Cooldown]]
    /\ db \in [Tags -> SUBSET Sources]
    /\ seen \in [Threads -> 0..MaxFailures]
    /\ table \subseteq Rows
    /\ store \in [Workers -> [pc : {"idle", "rows"}, todo : SUBSET Dates,
                              ins : SUBSET Dates, upd : SUBSET Dates,
                              since : 0..MaxAge, raced : BOOLEAN, outcome : Outcomes]]

\* The service and the table after construction.
ServiceInit ==
    /\ pc = [t \in Threads |-> "idle"]
    /\ idx = [t \in Threads |-> 0]
    /\ sig = [t \in Threads |-> FALSE]
    /\ owed = [t \in Threads |-> "-"]
    /\ resultCache = "absent"
    /\ inflight = NoEntry
    /\ failures = [s \in Sources |-> NoFailure]
    /\ db = [g \in Tags |-> {}]
    /\ trace = [t \in Threads |-> <<>>]
    /\ cscr = [t \in Threads |-> FALSE]
    /\ peer = [t \in Threads |-> FALSE]
    /\ res = [t \in Threads |-> NoResult]
    /\ seen = [t \in Threads |-> 0]
    /\ table = {}
    /\ store = [w \in Workers |-> NoStore]

Init ==
    /\ ServiceInit
    /\ args = <<>>
    /\ ret = <<>>

\* ---- get_price_history --------------------------------------------------
FailuresRecorded == SumCounts(failures, Sources)

\* The sources with a failure on record.  The model lets an adapter raise
\* while fewer than MaxFailures failures are on record and at most MaxFaulty
\* sources have any.
Faulty == {s \in Sources : failures[s].count > 0}
MayRaise(src) ==
    /\ FailuresRecorded < MaxFailures
    /\ Cardinality(Faulty \cup {src}) <= MaxFaulty

\* The call of thread u is past the result-cache check and does not wait
\* for another call.
Heading(u) == pc[u] \in {"register", "cache", "tier", "interp", "pop"}

\* The providers this call has fetched from so far: the adapters its tier
\* walk invoked, and the scraper when the cache service scraped for it.
Fetched(t) ==
    {trace[t][i].src : i \in {j \in 1..Len(trace[t]) : trace[t][j].out # "skipped"}}
        \cup (IF cscr[t] THEN {"scraped"} ELSE {})

\* A lookup that never finds the key.
KeyNeverInFlight(e) == FALSE

\* `cache_key in self._inflight`, read under _inflight_lock
KeyInFlight(e) == e.present

\* evt.wait() without a timeout returns only when the Event is set.
EventWaitNoTimeout(isSet, timedOut) == isSet

\* evt.wait(timeout=5) returns: the Event is set, or the timeout has passed
EventWait(isSet, timedOut) == isSet \/ timedOut

\* A return statement: the call's locals are gone, the pair goes to the caller.
ReturnFrom(t, r) ==
    /\ pc' = [pc EXCEPT ![t] = "idle"]
    /\ idx' = [idx EXCEPT ![t] = 0]
    /\ trace' = [trace EXCEPT ![t] = <<>>]
    /\ cscr' = [cscr EXCEPT ![t] = FALSE]
    /\ peer' = [u \in Threads |->
                  IF u = t THEN FALSE
                  ELSE IF Heading(u) THEN peer[u] \/ Fetched(t) # {} ELSE peer[u]]
    /\ res' = [res EXCEPT ![t] = NoResult]

\* self._cache[cache_key] = (merged, tag); evt.set()
Publish(t, r, cached) ==
    /\ resultCache' = cached
    /\ inflight' = [inflight EXCEPT !.set = TRUE]
    /\ sig' = [u \in Threads |-> IF pc[u] = "wait" THEN TRUE ELSE sig[u]]
    /\ owed' = [u \in Threads |-> IF pc[u] = "wait" /\ ~sig[u] THEN r.src ELSE owed[u]]
    /\ res' = [res EXCEPT ![t] = r]
    /\ pc' = [pc EXCEPT ![t] = "pop"]

\* The call whose Event is set and whose in-flight entry is still there: it
\* is between evt.set() and the pop.
Owner == CHOOSE c \in Threads : pc[c] = "pop"

\* Lines 286-295: resolve the alias, clamp the window, look the key up in the
\* in-process result cache.
Call(t) ==
    /\ pc[t] = "idle"
    /\ IF resultCache # "absent"
         THEN /\ ReturnFrom(t, [via |-> "result_cache", src |-> resultCache])
         ELSE /\ pc' = [pc EXCEPT ![t] = "register"]
              /\ UNCHANGED <<idx, trace, cscr, peer, res>>
    /\ UNCHANGED <<seen, table, store, args, ret, sig, owed, resultCache, inflight, failures, db>>

\* Lines 297-305: under the lock, find the key's Event or register a new one.
\* (Line 310 reads is_set() of the Event this call has just created, which
\* nothing else can have set.)
Register(t) ==
    /\ pc[t] = "register"
    /\ IF KeyInFlight(inflight)
         THEN /\ pc' = [pc EXCEPT ![t] = "wait"]
              /\ sig' = [sig EXCEPT ![t] = inflight.set]
              /\ owed' = [owed EXCEPT ![t] = IF inflight.set THEN res[Owner].src ELSE "-"]
              /\ peer' = [peer EXCEPT ![t] = FALSE]
              /\ UNCHANGED <<inflight, idx>>
         ELSE /\ inflight' = [present |-> TRUE, set |-> FALSE]
              /\ pc' = [pc EXCEPT ![t] = "cache"]
              /\ idx' = [idx EXCEPT ![t] = 1]
              /\ UNCHANGED <<sig, owed, peer>>
    /\ UNCHANGED <<seen, table, store, args, ret, resultCache, failures, db, trace, cscr, res>>

\* Line 308: evt.wait(timeout=5) returns, with the Event set or not.
WaitOver(t) ==
    /\ pc[t] = "wait"
    /\ \E timedOut \in BOOLEAN : EventWait(sig[t], timedOut)
    /\ pc' = [pc EXCEPT ![t] = "woke"]
    /\ UNCHANGED <<seen, table, store, args, ret, idx, sig, owed, resultCache, inflight, failures, db, trace, cscr,
                   peer, res>>

\* self._cache.get(cache_key, (None, 'none')): the source tag of the pair
CacheGet(c) == IF c = "absent" THEN "none" ELSE c

\* Line 309: return self._cache.get(cache_key, (None, 'none'))
WaitReturn(t) ==
    /\ pc[t] = "woke"
    /\ ReturnFrom(t, [via |-> IF sig[t] THEN "waiter" ELSE "timeout",
                      src |-> CacheGet(resultCache)])
    /\ sig' = [sig EXCEPT ![t] = FALSE]
    /\ owed' = [owed EXCEPT ![t] = "-"]
    /\ UNCHANGED <<seen, table, store, args, ret, resultCache, inflight, failures, db>>

\* PriceCacheService.get_price_history (lines 64-106) for one source tag.
\* Cached rows of the tag are returned as 'cache', after _update_forward has
\* scraped when they are stale or end early.  With no row of the tag the
\* cache service scrapes (_scrape_and_cache_smart), stores what it got under
\* the tag and returns it under the tag, not as 'cache'.
\* cond: what the scraped site does; ok: the store commits.
CacheServiceGet(d, tag, stale, cond, ok) ==
    LET got == AdapterFetch("scraped", cond) = "data"
        kept == IF got THEN StorePriceData(d, tag, "scraped", ok) ELSE d
    IN  IF d[tag] # {}
          THEN [source |-> "cache", db |-> IF stale THEN kept ELSE d, scraped |-> stale]
          ELSE [source |-> IF got THEN tag ELSE "none", db |-> kept, scraped |-> TRUE]

\* Lines 372-390: the loop over the source tags, from position i on; it ends
\* at the first tag the cache service answers as 'cache'.  The lookups of
\* one call follow each other at once and find the scraped site in one
\* condition.
RECURSIVE CacheLoop(_, _, _, _, _, _)
CacheLoop(d, i, scraped, stale, cond, ok) ==
    IF i > Len(CacheOrder) THEN [hit |-> "none", db |-> d, scraped |-> scraped]
    ELSE LET r == CacheServiceGet(d, CacheOrder[i], stale, cond, ok)
         IN  IF r.source = "cache"
               THEN [hit |-> CacheOrder[i], db |-> r.db, scraped |-> scraped \/ r.scraped]
               ELSE CacheLoop(r.db, i + 1, scraped \/ r.scraped, stale, cond, ok)

CacheLookupWith(t, stale, cond, ok) ==
    /\ pc[t] = "cache"
    /\ LET r == CacheLoop(db, 1, FALSE, stale, cond, ok)
       IN  /\ db' = r.db
           /\ cscr' = [cscr EXCEPT ![t] = r.scraped]
           /\ IF r.hit # "none"
                THEN Publish(t, [via |-> "db_cache", src |-> r.hit], r.hit)
                ELSE /\ pc' = [pc EXCEPT ![t] = "tier"]
                     /\ UNCHANGED <<resultCache, inflight, sig, owed, res>>
    /\ UNCHANGED <<seen, table, store, args, ret, idx, failures, trace, peer>>

CacheLookup(t) ==
    \E stale \in BOOLEAN, cond \in Conditions :
      \E ok \in (IF AdapterFetch("scraped", cond) = "data" THEN BOOLEAN ELSE {TRUE}) :
        CacheLookupWith(t, stale, cond, ok)

\* Lines 392-482, one tier: skipped when its breaker is open; otherwise the
\* adapter is fetched through _with_retry, an exception is recorded in
\* _failures, and a series ends the call: it is put in the result cache,
\* stored in the persistent cache under the tier's tag, and returned.
\* conds: what the provider does at each attempt; ok: the store commits.
TryTierWith(t, conds, ok) ==
    /\ pc[t] = "tier"
    /\ LET src == TierOrder[idx[t]]
           out == WithRetry(src, conds, 1)
           Advance == IF idx[t] < Len(TierOrder)
                        THEN /\ idx' = [idx EXCEPT ![t] = idx[t] + 1]
                             /\ UNCHANGED pc
                        ELSE /\ idx' = [idx EXCEPT ![t] = 0]
                             /\ pc' = [pc EXCEPT ![t] = "interp"]
       IN  IF IsOpen(failures, src)
             THEN /\ trace' = [trace EXCEPT ![t] = Append(@, [src |-> src, out |-> "skipped"])]
                  /\ Advance
                  /\ UNCHANGED <<failures, db, resultCache, inflight, sig, owed, res>>
             ELSE /\ out = "raises" => MayRaise(src)
                  /\ trace' = [trace EXCEPT ![t] = Append(@, [src |-> src, out |-> out])]
                  /\ failures' = IF out = "raises"
                                   THEN RecordFailure(failures, src)
                                   ELSE failures
                  /\ IF out = "data"
                       THEN /\ db' = StorePriceData(db, src, src, ok)
                            /\ Publish(t, [via |-> "adapter", src |-> src], src)
                            /\ UNCHANGED idx
                       ELSE /\ Advance
                            /\ UNCHANGED <<db, resultCache, inflight, sig, owed, res>>
    /\ UNCHANGED <<seen, table, store, args, ret, cscr, peer>>

\* What the provider does and whether the store commits are asked only
\* where the code gets that far: behind an open breaker no attempt is made,
\* a further attempt is made only after one that raised, and nothing is
\* stored unless a series came back.
Attempts(src) ==
    IF IsOpen(failures, src) THEN {[a \in 1..MaxAttempts |-> "ok"]}
    ELSE {c \in [1..MaxAttempts -> Conditions] :
             \A a \in 2..MaxAttempts : c[a - 1] # "escape" => c[a] = c[a - 1]}

Commits(src, conds) ==
    IF ~IsOpen(failures, src) /\ WithRetry(src, conds, 1) = "data" THEN BOOLEAN ELSE {TRUE}

TryTier(t) ==
    /\ pc[t] = "tier"
    /\ \E conds \in Attempts(TierOrder[idx[t]]) :
         \E ok \in Commits(TierOrder[idx[t]], conds) : TryTierWith(t, conds, ok)

\* Lines 484-526: interpolation over the transactions of the identifier,
\* knownPoints of which have a positive quantity; hasTx: interpolate returns
\* a series.  An entry another call has put in the result cache meanwhile is
\* merged with the interpolated series and keeps its tag.
InterpolateWith(t, knownPoints) ==
    /\ pc[t] = "interp"
    /\ LET hasTx == InterpolatorInterpolate(knownPoints) = "data" IN
       IF hasTx /\ resultCache # "absent"
         THEN /\ Publish(t, [via |-> "merged", src |-> resultCache], resultCache)
              /\ db' = KeepInProcess(db)
         ELSE IF hasTx
           THEN /\ Publish(t, [via |-> "interpolation", src |-> "interpolated"],
                           "interpolated")
                /\ db' = KeepInProcess(db)
           ELSE /\ Publish(t, [via |-> "none", src |-> "none"], resultCache)
                /\ UNCHANGED db
    /\ UNCHANGED <<seen, table, store, args, ret, idx, failures, trace, cscr, peer>>

Interpolate(t) == \E knownPoints \in 0..MaxPoints : InterpolateWith(t, knownPoints)

\* with self._inflight_lock: self._inflight.pop(cache_key, None); return
Pop(t) ==
    /\ pc[t] = "pop"
    /\ inflight' = NoEntry
    /\ ReturnFrom(t, res[t])
    /\ UNCHANGED <<seen, table, store, args, ret, sig, owed, resultCache, failures, db>>

\* ---- the environment ----------------------------------------------------
\* Time passes: every failure on record grows older.
Tick ==
    /\ \E s \in Sources : failures[s].age < Cooldown
    /\ failures' = [s \in Sources |->
                      [failures[s] EXCEPT !.age = IF @ + ClockStep < Cooldown
                                                   THEN @ + ClockStep ELSE Cooldown]]
    /\ UNCHANGED <<seen, table, store, args, ret, pc, idx, sig, owed, resultCache, inflight, db, trace, cscr, peer, res>>

\* An API handler serving the next request: price_service =
\* HistoricalPriceService(db).  __init__ gives the new coordinator an empty
\* result cache, in-flight map and failure map; the database stays.
ApiRequest ==
    /\ \A t \in Threads : pc[t] = "idle"
    /\ resultCache' = "absent"
    /\ inflight' = NoEntry
    /\ failures' = [s \in Sources |-> NoFailure]
    /\ UNCHANGED <<seen, table, store, args, ret, pc, idx, sig, owed, db, trace, cscr, peer, res>>

\* The application as deployed: every API request builds its own service,
\* so one thread at a time calls a given instance.  A lone caller never
\* finds an in-flight entry, so it never waits.
Handler ==
    \/ Call(1)
    \/ Register(1)
    \/ CacheLookup(1)
    \/ TryTier(1)
    \/ Interpolate(1)
    \/ Pop(1)

Next ==
    \/ Handler
    \/ Tick
    \/ ApiRequest

Spec == Init /\ [][Next]_vars

\* One service instance shared by the threads of Threads.  The interleavings
\* are explored with the faults confined to one source; Spec has them in
\* several.
OneFaulty == \A a, b \in Faulty : a = b

SharedTryTier(t) == TryTier(t) /\ OneFaulty'

SharedNext ==
    \E t \in Threads :
        \/ Call(t)
        \/ Register(t)
        \/ WaitOver(t)
        \/ WaitReturn(t)
        \/ CacheLookup(t)
        \/ SharedTryTier(t)
        \/ Interpolate(t)
        \/ Pop(t)

SharedSpec == Init /\ [][SharedNext]_vars

\* The threads of the shared instance, where a waiting thread's wait ends
\* (the timeout of evt.wait runs on its own) and a thread that has woken
\* goes on to its return statement.
FairSharedSpec ==
    /\ SharedSpec
    /\ \A t \in Threads : WF_vars(WaitOver(t)) /\ WF_vars(WaitReturn(t))

\* ---- calls for several windows of one identifier -------------------------
\* Each thread asks for the same identifier with a window of its own that
\* was not asked for before, while the scraped site has no data and no row
\* of the identifier is in the persistent cache.  The calls have different
\* cache keys, so none waits for another, and all of them use the failure
\* records of the identifier: self._failures is keyed by (fetch_symbol,
\* src), without the window.

\* Lines 286-390 for such a call: the result cache has no entry for the
\* key, the in-flight entry is created, the cache loop finds nothing.
WindowCall(t) ==
    /\ pc[t] = "idle"
    /\ pc' = [pc EXCEPT ![t] = "tier"]
    /\ idx' = [idx EXCEPT ![t] = 1]
    /\ UNCHANGED <<seen, table, store, args, ret, sig, owed, resultCache, inflight, failures, db, trace, cscr,
                   peer, res>>

\* On to the next tier, or to the fallback after the last one.
NextTier(t) ==
    IF idx[t] < Len(TierOrder)
      THEN /\ idx' = [idx EXCEPT ![t] = idx[t] + 1]
           /\ pc' = [pc EXCEPT ![t] = "tier"]
      ELSE /\ idx' = [idx EXCEPT ![t] = 0]
           /\ pc' = [pc EXCEPT ![t] = "interp"]

\* One tier while the providers give no series: skipped when its breaker
\* is open; when _with_retry raises, the except clause begins and reads the
\* count, self._failures.get((fetch_symbol, src), (0, 0.0))[0].  No lock is
\* held.
WindowTier(t) ==
    /\ pc[t] = "tier"
    /\ LET src == TierOrder[idx[t]] IN
       IF IsOpen(failures, src)
         THEN NextTier(t) /\ UNCHANGED seen
         ELSE \E conds \in Attempts(src) :
                LET out == WithRetry(src, conds, 1) IN
                /\ out # "data"
                /\ IF out = "none"
                     THEN NextTier(t) /\ UNCHANGED seen
                     ELSE /\ MayRaise(src)
                          /\ seen' = [seen EXCEPT ![t] = failures[src].count]
                          /\ pc' = [pc EXCEPT ![t] = "except"]
                          /\ UNCHANGED idx
    /\ UNCHANGED <<table, store, args, ret, sig, owed, resultCache, inflight, failures, db, trace, cscr,
                   peer, res>>

\* The except clause ends: self._failures[(fetch_symbol, src)] =
\* (count read + 1, time.time()).
ExceptWrite(t) ==
    /\ pc[t] = "except"
    /\ failures' = [failures EXCEPT ![TierOrder[idx[t]]] =
                        [count |-> seen[t] + 1, age |-> 0]]
    /\ seen' = [seen EXCEPT ![t] = 0]
    /\ NextTier(t)
    /\ UNCHANGED <<table, store, args, ret, sig, owed, resultCache, inflight, db, trace, cscr, peer, res>>

\* Lines 484-526 for such a call: the pair made from the transactions, or
\* (None, 'none'), goes to the caller and to the result cache under the
\* call's own key.
WindowFallback(t) ==
    /\ pc[t] = "interp"
    /\ pc' = [pc EXCEPT ![t] = "idle"]
    /\ UNCHANGED <<seen, table, store, args, ret, idx, sig, owed, resultCache, inflight, failures, db, trace,
                   cscr, peer, res>>

WindowsNext ==
    \/ \E t \in Threads :
          \/ WindowCall(t)
          \/ WindowTier(t)
          \/ ExceptWrite(t)
          \/ WindowFallback(t)
    \/ Tick

WindowsSpec == Init /\ [][WindowsNext]_vars

\* ---- the price_history table, row by row ---------------------------------
\* The rows of one (symbol, ticker, source) and the window 1..NDates, used
\* by two workers through PriceCacheService.
callVars == <<pc, idx, sig, owed, resultCache, inflight, failures, db, trace, cscr, peer,
              res, seen, args, ret>>

RowsOf(tab, d) == {r \in tab : r.date = d}
CachedDates(tab) == {r.date : r \in tab}
FirstCached(tab) == CHOOSE d \in CachedDates(tab) : \A e \in CachedDates(tab) : d <= e
LastCached(tab) == CHOOSE d \in CachedDates(tab) : \A e \in CachedDates(tab) : e <= d

\* _is_cache_complete for the window 1..NDates
IsCacheComplete(tab) ==
    tab # {} /\ FirstCached(tab) <= 1 /\ LastCached(tab) >= NDates

\* The staleness policy of _is_cache_fresh: today's row is stale once its
\* verification is more than an hour old (age 1), a row of the last week
\* once it is more than a day old (age 2).
StaleAfter(d) == IF d = NDates THEN 1 ELSE 2

\* _is_cache_fresh
IsCacheFresh(tab) ==
    tab # {} /\ \A r \in tab : r.age < StaleAfter(r.date)

\* A table without the unique constraint.
NoUniqueConstraint(tab, dates) == FALSE

\* uq_price_history_symbol_ticker_date_source: the INSERT of a row whose key
\* is in the table raises IntegrityError.
UniqueViolation(tab, dates) == \E d \in dates : RowsOf(tab, d) # {}

\* The rows a committed transaction of worker w leaves: the rows it found
\* are updated, the others inserted, all with its price and its `now`.
Upsert(tab, w, upd, ins, age) ==
    {IF r.date \in upd THEN [r EXCEPT !.price = w, !.age = age] ELSE r : r \in tab}
        \cup {[date |-> d, price |-> w, age |-> age] : d \in ins}

\* Worker w has committed rows of the dates `changed`: the open
\* transactions of other workers that have such a date in their batch took
\* their `now` before this commit.
Raced(w, changed) ==
    [u \in Workers |->
        IF u # w /\ (store[u].todo \cup store[u].upd) \cap changed # {}
          THEN [store[u] EXCEPT !.raced = TRUE]
          ELSE store[u]]

\* _store_price_data begins: now = datetime.now(), df has the rows to store.
StoreBegin(w) ==
    /\ store[w].pc = "idle"
    /\ \E df \in SUBSET Dates \ {{}} :
         store' = [store EXCEPT ![w] = [NoStore EXCEPT !.pc = "rows", !.todo = df]]
    /\ UNCHANGED <<table, callVars>>

\* One turn of its loop: the SELECT for the row's key, then the row found
\* is changed, or a new row is added to the session.
StoreRow(w) ==
    /\ store[w].pc = "rows"
    /\ store[w].todo # {}
    /\ LET d == CHOOSE d \in store[w].todo : \A e \in store[w].todo : d <= e
       IN  store' = [store EXCEPT ![w] =
                       IF RowsOf(table, d) # {}
                         THEN [@ EXCEPT !.todo = @ \ {d}, !.upd = @ \cup {d}]
                         ELSE [@ EXCEPT !.todo = @ \ {d}, !.ins = @ \cup {d}]]
    /\ UNCHANGED <<table, callVars>>

\* self.db.commit(): the changes are flushed and committed, or an INSERT
\* violates the unique constraint, the exception is caught and the whole
\* transaction is rolled back.
StoreCommit(w) ==
    /\ store[w].pc = "rows"
    /\ store[w].todo = {}
    /\ IF UniqueViolation(table, store[w].ins)
         THEN /\ table' = table
              /\ store' = [store EXCEPT ![w] = [NoStore EXCEPT !.outcome = "rolled_back"]]
         ELSE /\ table' = Upsert(table, w, store[w].upd, store[w].ins, store[w].since)
              /\ store' = [Raced(w, store[w].upd \cup store[w].ins) EXCEPT
                             ![w] = [NoStore EXCEPT !.outcome = "committed"]]
    /\ UNCHANGED callVars

\* _update_forward: nothing when the latest cached date is today, otherwise
\* the dates after it are scraped.
UpdateForwardRange(tab) ==
    IF LastCached(tab) >= NDates THEN {} ELSE (LastCached(tab) + 1)..NDates

\* How PriceCacheService.get_price_history finds the cached rows.
Classify(tab) ==
    IF tab = {} THEN "miss"
    ELSE IF IsCacheComplete(tab) /\ IsCacheFresh(tab) THEN "hit"
    ELSE IF IsCacheComplete(tab) THEN "stale"
    ELSE "incomplete"

\* PriceCacheService.get_price_history, with its scrape and store: a miss
\* scrapes the window, stale rows and rows that end two days or more before
\* the window's end call _update_forward; got is what the scraped site has.
CacheRead(w) ==
    /\ store[w].pc = "idle"
    /\ \E got \in SUBSET Dates :
         LET class == Classify(table)
             forward ==
                 \/ class = "stale"
                 \/ /\ class = "incomplete"
                    /\ LastCached(table) < NDates
                    /\ NDates - LastCached(table) > 1
                    /\ LastCached(table) < NDates - 1
             asked == IF class = "miss" THEN Dates
                      ELSE IF forward THEN UpdateForwardRange(table)
                      ELSE {}
         IN  /\ table' = Upsert(table, w, {}, got \cap asked, 0)
             /\ store' = [Raced(w, got \cap asked) EXCEPT ![w] =
                             [NoStore EXCEPT !.outcome =
                                 IF class = "stale" THEN "stale" ELSE "read"]]
    /\ UNCHANGED callVars

\* Time passes: k steps of the staleness policy since the youngest
\* verification and since the youngest `now`.
Elapse ==
    /\ \E k \in 1..MaxAge :
         /\ table' = {[r EXCEPT !.age = IF @ < k THEN k ELSE @] : r \in table}
         /\ store' = [w \in Workers |->
                         IF store[w].pc = "rows" /\ store[w].since < k
                           THEN [store[w] EXCEPT !.since = k]
                           ELSE store[w]]
    /\ <<table', store'>> # <<table, store>>
    /\ UNCHANGED callVars

CacheNext ==
    \/ \E w \in Workers :
          \/ StoreBegin(w)
          \/ StoreRow(w)
          \/ StoreCommit(w)
          \/ CacheRead(w)
    \/ Elapse

CacheSpec == Init /\ [][CacheNext]_vars

\* ---- functions called on their own ---------------------------------------
\* The function is applied once, to arguments drawn at the start.
serviceVars == <<pc, idx, sig, owed, resultCache, inflight, failures, db, trace, cscr, peer,
                 res, seen, table, store>>

Returns(v) ==
    /\ ret = <<>>
    /\ ret' = <<v>>
    /\ UNCHANGED <<args, serviceVars>>

\* The subsets of S with at most n elements.
RECURSIVE SetsUpTo(_, _)
SetsUpTo(S, n) ==
    IF n = 0 THEN {{}}
    ELSE LET T == SetsUpTo(S, n - 1) IN T \cup {t \cup {x} : t \in T, x \in S}

\* A row of cached_df as _is_cache_fresh sees it: age_days = (today -
\* row_date).days, whether last_verified_at is set, and
\* hours_since_verification.  The values lie on both sides of every
\* threshold of the policy.
AgeDaysValues == {0, 1, 7, 8, 10, 30, 31}
HoursValues == {0, 1, 2, 24, 25, 48, 168, 169}
CachedRows ==
    [ageDays : AgeDaysValues, verified : {TRUE}, hours : HoursValues]
        \cup [ageDays : AgeDaysValues, verified : {FALSE}, hours : {0}]

\* A policy with one band: every recent row is verified once per day.
IsCacheFreshDaily(rows) ==
    LET recent == {r \in rows : r.ageDays <= 30}
    IN  rows # {} /\ \A r \in recent : r.verified /\ r.hours <= 24

\* _is_cache_fresh: the rows of the last 30 days are walked, and the first
\* one without last_verified_at or past its band makes the series stale.
IsCacheFreshRows(rows) ==
    LET recent == {r \in rows : r.ageDays <= 30}
        Stale(r) ==
            IF ~r.verified THEN TRUE
            ELSE IF r.ageDays = 0 /\ r.hours > 1 THEN TRUE
            ELSE IF r.ageDays <= 7 /\ r.hours > 24 THEN TRUE
            ELSE IF r.ageDays <= 30 /\ r.hours > 168 THEN TRUE
            ELSE FALSE
    IN  IF rows = {} THEN FALSE
        ELSE IF recent = {} THEN TRUE
        ELSE \A r \in recent : ~Stale(r)

\* get_price_history calls _is_cache_fresh with the rows it has found, at
\* least one.
FreshInit ==
    /\ ServiceInit
    /\ args \in {<<rows>> : rows \in SetsUpTo(CachedRows, MaxRows) \ {{}}}
    /\ ret = <<>>

ApplyIsCacheFresh == Returns(IsCacheFreshRows(args[1]))

FreshNext == ApplyIsCacheFresh

FreshSpec == FreshInit /\ [][FreshNext]_vars

\* _get_cached_data: the rows of the key ordered by date (order_by
\* PriceHistory.date), here their dates.
RECURSIVE OrderByDate(_)
OrderByDate(dates) ==
    IF dates = {} THEN <<>>
    ELSE LET first == CHOOSE d \in dates : \A e \in dates : d <= e
         IN  <<first>> \o OrderByDate(dates \ {first})

\* A test with the comparisons the other way round: the cached rows lie
\* within the requested range.
IsCacheInside(df, start, end) ==
    IF Len(df) = 0 THEN FALSE
    ELSE df[1] >= start /\ df[Len(df)] <= end

\* _is_cache_complete(cached_df, start_date, end_date): the first and the
\* last row of cached_df against the requested range.
IsCacheCompleteFor(df, start, end) ==
    IF Len(df) = 0 THEN FALSE
    ELSE df[1] <= start /\ df[Len(df)] >= end

Days == 1..MaxDay

CompleteInit ==
    /\ ServiceInit
    /\ args \in {<<OrderByDate(dates), start, end>> :
                    dates \in SUBSET Days \ {{}},
                    start \in Days, end \in Days}
    /\ args[2] <= args[3]
    /\ ret = <<>>

ApplyIsCacheComplete == Returns(IsCacheCompleteFor(args[1], args[2], args[3]))

CompleteNext == ApplyIsCacheComplete

CompleteSpec == CompleteInit /\ [][CompleteNext]_vars

\* _update_forward(symbol, ticker, source): the latest date of all rows of
\* the key, whatever the window of the read; nothing is scraped when it is
\* today or later, otherwise the range from the day after it to today.
\* A range is <<from, to>>, and <<>> when nothing is scraped.
UpdateForward(dates, today) ==
    LET latest == CHOOSE d \in dates : \A e \in dates : e <= d
    IN  IF latest >= today THEN <<>> ELSE <<latest + 1, today>>

\* PriceCacheService.get_price_history, lines 64-106: how the read finds the
\* rows of the key cached within [start, end], and the range it has
\* scraped.  dates: the dates of all rows of the key; fresh: what
\* _is_cache_fresh says of the rows found.
ReadFetch(dates, start, end, today, fresh) ==
    LET df == OrderByDate(dates \cap start..end)
        last == df[Len(df)]
    IN  IF Len(df) = 0
          THEN [found |-> "miss", fetch |-> <<start, end>>]
        ELSE IF IsCacheCompleteFor(df, start, end) /\ fresh
          THEN [found |-> "hit", fetch |-> <<>>]
        ELSE IF IsCacheCompleteFor(df, start, end)
          THEN [found |-> "stale", fetch |-> UpdateForward(dates, today)]
        ELSE IF last < end /\ end - last > 1 /\ last < today - 1
          THEN [found |-> "incomplete", fetch |-> UpdateForward(dates, today)]
        ELSE [found |-> "incomplete", fetch |-> <<>>]

\* A read of a window of at most 365 days that does not end after today.
ReadInit ==
    /\ ServiceInit
    /\ args \in {<<dates, start, end, today, fresh>> :
                    dates \in SUBSET Days, start \in Days, end \in Days,
                    today \in Days, fresh \in BOOLEAN}
    /\ args[2] <= args[3]
    /\ args[3] <= args[4]
    /\ \A d \in args[1] : d <= args[4]
    /\ ret = <<>>

ApplyReadFetch == Returns(ReadFetch(args[1], args[2], args[3], args[4], args[5]))

ReadNext == ApplyReadFetch

ReadSpec == ReadInit /\ [][ReadNext]_vars

\* ---- _scrape_and_cache_smart ----------------------------------------------
\* The call for a window [start, end], dates counted in days from the
\* requested start.  args holds the window, the position of the call, the
\* backfill's current_end and the ranges handed to _scrape_and_cache so
\* far, each with what the scrape gave.  The stores of this call commit.
SmartInit ==
    /\ ServiceInit
    /\ \E span \in 0..((MaxChunks + 1) * BackfillChunkDays + 1) :
         args = [start |-> 1, end |-> 1 + span, at |-> "begin", currentEnd |-> 0,
                 fetched |-> <<>>]
    /\ ret = <<>>

\* _scrape_and_cache: the scraper's exceptions are caught and give None.
ScrapeOutcomes == {"data", "none", "raises"}
ScrapeAndCache(from, to, got) ==
    [from |-> from, to |-> to, got |-> IF got = "data" THEN "data" ELSE "none"]

\* The days of the ranges that gave data: the rows now in the cache and in
\* what _get_cached_data returns for the window.
RowsFetched(fetched) ==
    UNION {fetched[i].from..fetched[i].to :
              i \in {j \in 1..Len(fetched) : fetched[j].got = "data"}}

\* Lines 292-311: a window of at most 365 days is scraped whole; otherwise
\* the priority window [end - 365, end] first, and the call ends when that
\* gives nothing or reaches back to the start.
SmartPriority ==
    /\ args.at = "begin"
    /\ \E got \in ScrapeOutcomes :
         LET direct == args.end - args.start <= PriorityFetchDays
             priorityStart ==
                 IF direct THEN args.start
                 ELSE IF args.end - PriorityFetchDays < args.start THEN args.start
                 ELSE args.end - PriorityFetchDays
             f == ScrapeAndCache(priorityStart, args.end, got)
         IN  IF f.got = "data" /\ priorityStart > args.start
               THEN /\ args' = [args EXCEPT !.at = "backfill",
                                           !.currentEnd = priorityStart - 1,
                                           !.fetched = <<f>>]
                    /\ UNCHANGED ret
               ELSE /\ args' = [args EXCEPT !.at = "done", !.fetched = <<f>>]
                    /\ ret' = <<IF f.got = "data" THEN RowsFetched(<<f>>) ELSE {}>>
    /\ UNCHANGED serviceVars

\* A chunk of 366 days.
ChunkStartOneDayMore(start, currentEnd) ==
    IF start > currentEnd - BackfillChunkDays
      THEN start ELSE currentEnd - BackfillChunkDays

\* chunk_start = max(start_date, current_end - timedelta(days=365) +
\* timedelta(days=1))
ChunkStart(start, currentEnd) ==
    IF start > currentEnd - BackfillChunkDays + 1
      THEN start ELSE currentEnd - BackfillChunkDays + 1

\* A backfill that goes on whatever a chunk gave.
BackfillNeverStops(got) == TRUE

\* The backfill goes on to the next chunk only after a chunk with data;
\* no data and an exception `break` the loop.
BackfillGoesOn(got) == got = "data"

\* One turn of the loop of _backfill_older_data_chunked.
BackfillChunk ==
    /\ args.at = "backfill"
    /\ args.currentEnd >= args.start
    /\ \E got \in ScrapeOutcomes :
         LET chunkStart == ChunkStart(args.start, args.currentEnd)
             f == ScrapeAndCache(chunkStart, args.currentEnd, got)
         IN  args' = [args EXCEPT
                        !.fetched = Append(@, f),
                        !.currentEnd = IF BackfillGoesOn(got) THEN chunkStart - 1 ELSE @,
                        !.at = IF BackfillGoesOn(got) THEN "backfill" ELSE "merge"]
    /\ UNCHANGED <<ret, serviceVars>>

\* The loop is over; lines 325-332: the rows of the window are read back
\* from the cache and returned when they are more than the priority fetch
\* gave, otherwise the priority fetch is returned.
SmartReturn ==
    /\ \/ args.at = "merge"
       \/ args.at = "backfill" /\ args.currentEnd < args.start
    /\ LET scraped == RowsFetched(<<args.fetched[1]>>)
           merged == RowsFetched(args.fetched)
       IN  ret' = <<IF Cardinality(merged) > Cardinality(scraped) THEN merged ELSE scraped>>
    /\ args' = [args EXCEPT !.at = "done"]
    /\ UNCHANGED serviceVars

SmartNext ==
    \/ SmartPriority
    \/ BackfillChunk
    \/ SmartReturn

SmartSpec == SmartInit /\ [][SmartNext]_vars

\* ---- get_holding_price_history: the window of a request ------------------
\* A request names a start and an end or leaves them out; tx is the pair of
\* the first and the last transaction date of the holding, <<>> without
\* transactions.  The request is made on day MaxDay.
NoDate == 0

RequestInit ==
    /\ ServiceInit
    /\ \E start \in Days \cup {NoDate}, end \in Days \cup {NoDate},
          tx \in {<<>>} \cup {<<f, l>> : f \in Days, l \in Days} :
         /\ tx # <<>> => tx[1] <= tx[2]
         /\ args = [start |-> start, end |-> end, tx |-> tx, at |-> "request",
                    window |-> <<>>, used |-> <<>>]
    /\ ret = <<>>

\* A handler that checks nothing.
AnyOrder(start, end) == FALSE

\* if start_date > end_date: raise HTTPException(status_code=400, ...)
StartAfterEnd(start, end) == start > end

\* Lines 491-511 of the handler: the defaults of the two dates, then the
\* check of their order; the service is built and called only after it.
GetHoldingPriceHistory ==
    /\ args.at = "request"
    /\ LET end == IF args.end = NoDate THEN MaxDay ELSE args.end
           start == IF args.start # NoDate THEN args.start
                    ELSE IF args.tx # <<>> THEN args.tx[1]
                    ELSE end
       IN  IF StartAfterEnd(start, end)
             THEN /\ args' = [args EXCEPT !.start = start, !.end = end, !.at = "done"]
                  /\ ret' = <<[status |-> 400, source |-> "-"]>>
             ELSE /\ args' = [args EXCEPT !.start = start, !.end = end, !.at = "service"]
                  /\ UNCHANGED ret
    /\ UNCHANGED serviceVars

\* effective_start = max(start_date, tx_first) if tx_first else start_date
\* effective_end = end_date if not tx_last else max(end_date, tx_last)
EffectiveWindow(start, end, tx) ==
    <<IF tx # <<>> /\ tx[1] > start THEN tx[1] ELSE start,
      IF tx # <<>> /\ tx[2] > end THEN tx[2] ELSE end>>

\* The service's lookup in the persistent cache, made with the effective
\* window (the result cache of a new service is empty).
GetPriceHistory ==
    /\ args.at = "service"
    /\ LET w == EffectiveWindow(args.start, args.end, args.tx)
       IN  \E hit \in BOOLEAN :
             /\ args' = [args EXCEPT !.window = w,
                                     !.used = Append(@, [by |-> "cache", from |-> w[1], to |-> w[2]]),
                                     !.at = IF hit THEN "done" ELSE "tiers"]
             /\ ret' = IF hit THEN <<[status |-> 200, source |-> "cache"]>> ELSE ret
    /\ UNCHANGED serviceVars

\* The adapters are asked for the effective window; without data from them
\* and from the interpolation the handler answers 404.
FetchWindow ==
    /\ args.at = "tiers"
    /\ \E source \in {"scraped", "interpolated", "none"} :
         /\ args' = [args EXCEPT
                        !.used = Append(@, [by |-> "adapter", from |-> args.window[1],
                                            to |-> args.window[2]]),
                        !.at = "done"]
         /\ ret' = <<[status |-> IF source = "none" THEN 404 ELSE 200, source |-> source]>>
    /\ UNCHANGED serviceVars

RequestNext ==
    \/ GetHoldingPriceHistory
    \/ GetPriceHistory
    \/ FetchWindow

RequestSpec == RequestInit /\ [][RequestNext]_vars

\* ---- LinearInterpolator.interpolate ---------------------------------------
\* The transactions of an identifier, at most one a day; a price is the
\* quotient amount_jpy / quantity, kept as the pair <<numerator,
\* denominator>>.  NaN is the pair <<0, 0>>.
Transactions == [date : Days, amount : {100, 110}, quantity : {0, 1, 2}]
NaN == <<0, 0>>

InterpInit ==
    /\ ServiceInit
    /\ \E txs \in SetsUpTo(Transactions, MaxPoints), start \in Days, end \in Days :
         /\ start <= end
         /\ \A a \in txs, b \in txs : a.date = b.date => a = b
         /\ args = <<txs, start, end>>
    /\ ret = <<>>

\* Every transaction a known point.
KnownPointsAnyQuantity(txs) == txs

\* known_points: the transactions with quantity > 0
KnownPoints(txs) == {tx \in txs : tx.quantity > 0}
PriceOf(tx) == <<tx.amount, tx.quantity>>

\* _get_tx_bounds: the first and the last transaction date.
TxBounds(txs) ==
    IF txs = {} THEN <<>>
    ELSE <<CHOOSE d \in {tx.date : tx \in txs} : \A tx \in txs : d <= tx.date,
           CHOOSE d \in {tx.date : tx \in txs} : \A tx \in txs : d >= tx.date>>

\* The value interpolate(method='linear') gives day k between the known
\* points a and b of the reindexed series.
LinearBetween(a, b, k) ==
    LET p == PriceOf(a)
        q == PriceOf(b)
    IN  <<p[1] * q[2] * (b.date - a.date) + (q[1] * p[2] - p[1] * q[2]) * (k - a.date),
          p[2] * q[2] * (b.date - a.date)>>

\* LinearInterpolator.interpolate(transactions, start, end): None without
\* a known point, a constant series with one; otherwise the known points
\* are reindexed to the days of the window, which drops those outside it,
\* the gaps between the remaining ones are interpolated, and bfill and
\* ffill give the days before the first and after the last remaining point
\* that point's price.
InterpolateSeries(txs, start, end) ==
    LET known == KnownPoints(txs)
        inside == {tx \in known : start <= tx.date /\ tx.date <= end}
        Before(k) == {tx \in inside : tx.date <= k}
        After(k) == {tx \in inside : tx.date >= k}
        Latest(S) == CHOOSE tx \in S : \A o \in S : o.date <= tx.date
        Earliest(S) == CHOOSE tx \in S : \A o \in S : o.date >= tx.date
    IN  IF Cardinality(known) = 0 THEN <<>>
        ELSE IF Cardinality(known) = 1
          THEN <<[k \in start..end |-> PriceOf(CHOOSE tx \in known : TRUE)]>>
        ELSE <<[k \in start..end |->
                  IF inside = {} THEN NaN
                  ELSE IF Before(k) = {} THEN PriceOf(Earliest(inside))
                  ELSE IF After(k) = {} THEN PriceOf(Latest(inside))
                  ELSE IF Latest(Before(k)).date = k THEN PriceOf(Latest(Before(k)))
                  ELSE LinearBetween(Latest(Before(k)), Earliest(After(k)), k)]>>

\* get_price_history when the cache and every adapter give nothing: the
\* interpolation over the effective window.
InterpolatedHistory(txs, start, end) ==
    LET w == EffectiveWindow(start, end, TxBounds(txs))
        prices == InterpolateSeries(txs, w[1], w[2])
    IN  IF prices = <<>> THEN [source |-> "none", window |-> w, prices |-> <<>>]
        ELSE [source |-> "interpolated", window |-> w, prices |-> prices]

ApplyInterpolatedHistory == Returns(InterpolatedHistory(args[1], args[2], args[3]))

InterpNext == ApplyInterpolatedHistory

InterpSpec == InterpInit /\ [][InterpNext]_vars

\* LinearInterpolator.interpolate called on its own.
ApplyInterpolate == Returns(InterpolateSeries(args[1], args[2], args[3]))

SeriesNext == ApplyInterpolate

SeriesSpec == InterpInit /\ [][SeriesNext]_vars

\* ---- get_holding_price_history: the FX rate of a price point -------------
\* A holding of the US market: the request's window [start, end], the last
\* day `last` of the price series get_price_history returned (the effective
\* window ends on the last transaction date when that is later than end),
\* and the days of [start, end] for which the FX series has a rate.  A
\* missing rate is <<>>, a rate r is <<r>>.
RateValues == {150, 152}

FxInit ==
    /\ ServiceInit
    /\ \E start \in Days, end \in Days, last \in Days :
         /\ start <= end
         /\ end <= last
         /\ \E on \in SUBSET (start..end) : \E rates \in [on -> RateValues] :
              args = [start |-> start, end |-> end, last |-> last, rates |-> rates]
    /\ ret = <<>>

\* Lines 547-555: the loop from start_date to end_date that carries the
\* last rate seen forward; a day before the first rate gets no entry.
RECURSIVE FillForward(_, _, _, _)
FillForward(raw, current, end, lastFx) ==
    IF current > end THEN <<>>
    ELSE LET fx == IF current \in DOMAIN raw THEN <<raw[current]>> ELSE lastFx
         IN  (IF fx # <<>> THEN (current :> fx) ELSE <<>>)
               @@ FillForward(raw, current + 1, end, fx)

\* Lines 560-564: fx_rate = fx_map.get(point_date) for every point of the
\* price series.
FxRates(start, end, last, raw) ==
    LET fxMap == FillForward(raw, start, end, <<>>)
    IN  [d \in start..last |-> IF d \in DOMAIN fxMap THEN fxMap[d] ELSE <<>>]

ApplyFxRates == Returns(FxRates(args.start, args.end, args.last, args.rates))

FxNext == ApplyFxRates

FxSpec == FxInit /\ [][FxNext]_vars

\* ---- the Yahoo tier of get_price_history ---------------------------------
\* The series the Yahoo adapter returned for the effective window: a price
\* for some days of it, at least one.
YahooPrices == {100, 101}

YahooInit ==
    /\ ServiceInit
    /\ \E txs \in SetsUpTo(Transactions, 1), start \in Days, end \in Days :
         /\ start <= end
         /\ LET w == EffectiveWindow(start, end, TxBounds(txs)) IN
            \E on \in (SUBSET (w[1]..w[2])) \ {{}} : \E prices \in [on -> YahooPrices] :
              args = <<txs, start, end, prices>>
    /\ ret = <<>>

\* _merge_with_interpolation(base_df): base_df reindexed to every day of the
\* effective window and forward-filled; the days still without a price take
\* the one of the interpolation over the transactions, if there is one.
MergeWithInterpolation(base, txs, from, to) ==
    LET interp == InterpolateSeries(txs, from, to)
        Earlier(d) == {x \in DOMAIN base : from <= x /\ x <= d}
        Latest(S) == CHOOSE x \in S : \A y \in S : y <= x
    IN  [d \in from..to |->
            IF Earlier(d) # {} THEN <<base[Latest(Earlier(d))], 1>>
            ELSE IF interp # <<>> THEN interp[1][d]
            ELSE NaN]

\* Lines 414-435: the adapter's series is merged, put in the result cache
\* and returned with the tag 'yahoo'.
YahooTier(txs, start, end, prices) ==
    LET w == EffectiveWindow(start, end, TxBounds(txs))
    IN  [source |-> "yahoo", prices |-> MergeWithInterpolation(prices, txs, w[1], w[2])]

ApplyYahooTier == Returns(YahooTier(args[1], args[2], args[3], args[4]))

YahooNext == ApplyYahooTier

YahooSpec == YahooInit /\ [][YahooNext]_vars

\* ---- resolve_alias -------------------------------------------------------
\* A string is the sequence of its characters; a character outside ASCII is
\* written by a name (the full-width W of the table is "W(full)").
Space == " "
WideSpace == "ideographic space"
DotT == <<".", "T">>

Code0331418A == <<"0", "3", "3", "1", "4", "1", "8", "A">>
Code1326 == <<"1", "3", "2", "6">>
Code1693 == <<"1", "6", "9", "3">>
Code4755 == <<"4", "7", "5", "5">>
Code7203 == <<"7", "2", "0", "3">>

\* Entries of ALIAS_MAP, each <<key, canonical symbol>>: a fund, an ETF
\* listed without and two codes listed with their ".T" form.
ALIAS_MAP ==
    << <<Code0331418A, Code0331418A>>,
       <<Code1326, Code1326>>,
       <<Code1693, Code1693>>,
       <<Code1693 \o DotT, Code1693>>,
       <<Code4755, Code4755>>,
       <<Code4755 \o DotT, Code4755>> >>

\* Entries of NAME_ALIASES in the order of the table, each <<name,
\* symbol>>: lines 42, 91, 92, 94, 95, 98 and 99.
NAME_ALIASES ==
    << << <<"o", "ru", "ka", "n">>, Code0331418A >>,
       << <<"W(full)", "T(full)", "copper", "up", "place", "throw", "trust">>, Code1693 >>,
       << <<"W", "i", "s", "d", "o", "m", "T", "r", "e", "e", Space, "copper">>, Code1693 >>,
       << <<"W", "T", "copper", "up", "place", "throw", "trust">>, Code1693 >>,
       << <<"W(full)", "T(full)", Space, "copper", Space, "up", "place", "throw", "trust">>,
          Code1693 >>,
       << <<"raku", "ten", "gu", "ru", "-", "pu">>, Code4755 >>,
       << <<"raku", "ten", Space, "gu", "ru", "-", "pu">>, Code4755 >> >>

\* s.replace(" ", "").replace(<ideographic space>, "")
IsNoSpace(c) == c \notin {Space, WideSpace}
RemoveSpaces(s) == SelectSeq(s, IsNoSpace)

\* s.endswith(".T")
EndsWithDotT(s) == Len(s) >= 2 /\ SubSeq(s, Len(s) - 1, Len(s)) = DotT

\* s.replace(".T", ""): every occurrence is removed, from the left.
RECURSIVE RemoveDotT(_)
RemoveDotT(s) ==
    IF Len(s) < 2 THEN s
    ELSE IF SubSeq(s, 1, 2) = DotT THEN RemoveDotT(SubSeq(s, 3, Len(s)))
    ELSE <<s[1]>> \o RemoveDotT(Tail(s))

\* key in s
Contains(s, key) ==
    \E i \in 1..(Len(s) - Len(key) + 1) : SubSeq(s, i, i + Len(key) - 1) = key

InAliasMap(s) == \E i \in 1..Len(ALIAS_MAP) : ALIAS_MAP[i][1] = s
AliasOf(s) == ALIAS_MAP[CHOOSE i \in 1..Len(ALIAS_MAP) : ALIAS_MAP[i][1] = s][2]

\* An unresolved symbol returned without its spaces.
UnresolvedNormalized(symbol, name) == <<RemoveSpaces(symbol), name>>

\* return symbol, name
Unresolved(symbol, name) == <<symbol, name>>

\* resolve_alias(symbol, name)
ResolveAlias(symbol, name) ==
    LET symbolNormalized == RemoveSpaces(symbol)
        stripped == RemoveDotT(symbolNormalized)
        nameNormalized == RemoveSpaces(name)
        matching == {i \in 1..Len(NAME_ALIASES) : Contains(nameNormalized, NAME_ALIASES[i][1])}
    IN  IF InAliasMap(symbolNormalized) THEN <<AliasOf(symbolNormalized), name>>
        ELSE IF EndsWithDotT(symbolNormalized) /\ InAliasMap(stripped)
          THEN <<AliasOf(stripped), name>>
        ELSE IF matching # {}
          THEN <<NAME_ALIASES[CHOOSE i \in matching : \A j \in matching : i <= j][2], name>>
        ELSE Unresolved(symbol, name)

\* The symbols and names resolve_alias is called with: codes of the table
\* and others, with and without ".T" and spaces; names of the table as they
\* are and with one space put in, and names of no table.
InsertAt(s, i, c) == SubSeq(s, 1, i) \o <<c>> \o SubSeq(s, i + 1, Len(s))
Codes == {Code0331418A, Code1326, Code1693, Code4755, Code7203, <<>>}
Symbols ==
    Codes \cup {c \o DotT : c \in Codes}
          \cup {InsertAt(c, 2, sp) : c \in {Code1693, Code7203}, sp \in {Space, WideSpace}}
TableNames == {NAME_ALIASES[i][1] : i \in 1..Len(NAME_ALIASES)}
Names ==
    TableNames
      \cup UNION {{InsertAt(n, i, sp) : i \in 0..Len(n), sp \in {Space, WideSpace}} :
                     n \in TableNames}
      \cup {<<"T", "o", "y", "o", "t", "a">>, <<>>}

AliasInit ==
    /\ ServiceInit
    /\ \E symbol \in Symbols, name \in Names : args = <<symbol, name>>
    /\ ret = <<>>

ApplyResolveAlias == Returns(ResolveAlias(args[1], args[2]))

AliasNext == ApplyResolveAlias

AliasSpec == AliasInit /\ [][AliasNext]_vars

\* resolve_alias called for a code with ".T" appended and for the code.
SuffixInit ==
    /\ ServiceInit
    /\ \E c \in Symbols, name \in Names : args = <<c, name>>
    /\ ret = <<>>

ApplyBothForms ==
    Returns([suffixed |-> ResolveAlias(args[1] \o DotT, args[2]),
             plain |-> ResolveAlias(args[1], args[2])])

SuffixNext == ApplyBothForms

SuffixSpec == SuffixInit /\ [][SuffixNext]_vars

\* ---- YahooScraperFetcher.fetch: the records ------------------------------
\* The rows of the scraped pages in the order they are read, each with its
\* date and its price; a price of 0 stands for a cell that gives no
\* positive number.
ScrapedRows == [date : Days, price : {0, 100, 101}]

RECURSIVE SeqsUpTo(_, _)
SeqsUpTo(S, n) ==
    IF n = 0 THEN {<<>>}
    ELSE LET T == SeqsUpTo(S, n - 1) IN T \cup {Append(t, x) : t \in T, x \in S}

RowsInit ==
    /\ ServiceInit
    /\ \E rows \in SeqsUpTo(ScrapedRows, MaxRows), start \in Days, end \in Days :
         /\ start <= end
         /\ args = <<rows, start, end>>
    /\ ret = <<>>

\* Lines 1072-1105: a row outside [start_date, end_date] or without a
\* positive price is skipped, the others are appended to records.
ParseRows(rows, start, end) ==
    LET Valid(r) == r.date >= start /\ r.date <= end /\ r.price > 0
    IN  SelectSeq(rows, Valid)

\* drop_duplicates that keeps the last row of a date.
RECURSIVE DropDuplicatesKeepLast(_)
DropDuplicatesKeepLast(records) ==
    IF records = <<>> THEN <<>>
    ELSE LET n == Len(records)
             rest == SubSeq(records, 1, n - 1)
             NotSame(r) == r.date # records[n].date
         IN  Append(DropDuplicatesKeepLast(SelectSeq(rest, NotSame)), records[n])

\* df.drop_duplicates(subset=["date"], keep="first")
RECURSIVE DropDuplicates(_)
DropDuplicates(records) ==
    IF records = <<>> THEN <<>>
    ELSE LET NotSame(r) == r.date # records[1].date
         IN  <<records[1]>> \o DropDuplicates(SelectSeq(Tail(records), NotSame))

\* df.sort_values("date")
RECURSIVE SortValues(_)
SortValues(records) ==
    IF records = <<>> THEN <<>>
    ELSE LET i == CHOOSE k \in 1..Len(records) :
                    \A j \in 1..Len(records) :
                        \/ records[k].date < records[j].date
                        \/ records[k].date = records[j].date /\ k <= j
             Others(k) == [j \in 1..(Len(records) - 1) |->
                             IF j < k THEN records[j] ELSE records[j + 1]]
         IN  <<records[i]>> \o SortValues(Others(i))

\* fetch from the records on: None without a record, otherwise the frame
\* without duplicate dates, sorted by date.
FetchRecords(rows, start, end) ==
    LET records == ParseRows(rows, start, end)
    IN  IF records = <<>> THEN <<>> ELSE <<SortValues(DropDuplicates(records))>>

ApplyFetchRecords == Returns(FetchRecords(args[1], args[2], args[3]))

RowsNext == ApplyFetchRecords

RowsSpec == RowsInit /\ [][RowsNext]_vars

\* ---- YahooScraperFetcher.fetch: the pagination loop ----------------------
MaxPagesRead == 50

\* What the look for the next control gives after a page has been parsed.
Controls == {"none", "disabled", "unchanged", "changed", "error"}

PagesInit ==
    /\ ServiceInit
    /\ args = [at |-> "page", page |-> 1, control |-> "-"]
    /\ ret = <<>>

\* Lines 1014-1040: the head of the loop and the search for the table.
ReadPage ==
    /\ args.at = "page"
    /\ IF args.page > MaxPagesRead
         THEN /\ args' = [args EXCEPT !.at = "done"]
              /\ ret' = <<args.page - 1>>
         ELSE \E found \in BOOLEAN :
                IF found
                  THEN /\ args' = [args EXCEPT !.at = "next"]
                       /\ UNCHANGED ret
                  ELSE /\ args' = [args EXCEPT !.at = "done"]
                       /\ ret' = <<args.page>>
    /\ UNCHANGED serviceVars

\* A loop that ends only when there is no next control.
StopsWithoutControlOnly(control) == control = "none"

\* The loop is left when no next control is found, when it is disabled,
\* when the click changes none of first date, pagination text and URL, and
\* on an exception; otherwise page_num += 1.
StopsReading(control) == control # "changed"

\* Lines 1118-1152: the next control is looked for, clicked and the page
\* compared with its state before the click.
Advance ==
    /\ args.at = "next"
    /\ \E control \in Controls :
         IF StopsReading(control)
           THEN /\ args' = [args EXCEPT !.at = "done", !.control = control]
                /\ ret' = <<args.page>>
           ELSE /\ args' = [args EXCEPT !.at = "page", !.page = @ + 1, !.control = control]
                /\ UNCHANGED ret
    /\ UNCHANGED serviceVars

PagesNext ==
    \/ ReadPage
    \/ Advance

PagesSpec == PagesInit /\ [][PagesNext]_vars

\* Every call the loop makes on the page has a timeout: the loop takes its
\* next step.
FairPagesSpec == PagesSpec /\ WF_vars(PagesNext)

\* ---- get_price_history left by an exception ------------------------------
\* Lines 487-511: the query for the transactions (or the interpolation over
\* them) raises, as it does when the database fails; the body has no
\* try/finally, so the exception leaves get_price_history at once: the
\* Event stays unset and the key stays in self._inflight.
Raise(t) ==
    /\ pc[t] = "interp"
    /\ ReturnFrom(t, NoResult)
    /\ UNCHANGED <<seen, table, store, args, ret, sig, owed, resultCache, inflight, failures, db>>

RaisingNext ==
    \/ SharedNext
    \/ \E t \in Threads : Raise(t)

RaisingSpec == Init /\ [][RaisingNext]_vars

\* ---- properties ---------------------------------------------------------
\* The call of thread t is between registering its Event and publishing its
\* result: the part of get_price_history that reads and writes the
\* persistent cache and calls the adapters.
Working(t) == pc[t] \in {"cache", "tier", "interp"}

LastOf(q) == q[Len(q)]

C2_OverlappingCallsFetchOnce ==
    \A t \in Threads : peer[t] => Fetched(t) = {}

\* C3: at any time at most one thread is in the part of get_price_history
\* that calls adapters and writes the persistent cache.
C3_OneWorkerPerKey ==
    \A t, u \in Threads : (Working(t) /\ Working(u)) => t = u

\* C3 witness: one thread works on the key while another, which found the
\* in-flight entry, waits.
C3_WorkerAndWaiterWitness ==
    \E t, u \in Threads : Working(t) /\ trace[t] # <<>> /\ pc[u] = "wait"

\* C4: a call that passes over a source because its breaker is open makes no
\* fetch to that source's provider at any point.
C4_OpenBreakerMeansNoFetch ==
    \A t \in Threads : \A i \in 1..Len(trace[t]) :
        trace[t][i].out = "skipped" => trace[t][i].src \notin Fetched(t)

\* C5: when a tripped breaker's last failure is a cooldown old, the call that
\* reaches the tier invokes the adapter, and nothing has reset the count.
C5_ExpiredBreakerLetsTheCallThrough ==
    [][\A t \in Threads :
          LET src == TierOrder[idx[t]]
          IN  (/\ pc[t] = "tier"
               /\ failures[src].count >= BreakerThreshold
               /\ failures[src].age >= Cooldown
               /\ Len(trace'[t]) = Len(trace[t]) + 1)
              => /\ LastOf(trace'[t]).src = src
                 /\ LastOf(trace'[t]).out # "skipped"
                 /\ failures'[src].count >= failures[src].count]_vars

\* C5 witness: an adapter was invoked and answered although three failures
\* are on record for it.
C5_InvokedAfterTripWitness ==
    \E t \in Threads : \E i \in 1..Len(trace[t]) :
        /\ trace[t][i].out = "none"
        /\ failures[trace[t][i].src].count >= BreakerThreshold

\* C6: after a trip has expired, one more failure does not open the breaker
\* again: it takes three new failures in a row.
C6_ExpiredTripNeedsThreeNewFailures ==
    [][\A src \in Sources :
          (/\ failures[src].count >= BreakerThreshold
           /\ failures[src].age >= Cooldown
           /\ failures'[src].count = failures[src].count + 1)
          => ~IsOpen(failures', src)]_vars

\* C7: nothing but a restart takes a failure off the record: the coordinator
\* that serves the next API request finds every count as the last one left it.
C7_FailuresOutliveTheRequest ==
    [][\A src \in Sources : failures'[src].count >= failures[src].count]_vars

\* C8: when an adapter raised on every attempt, the call has a failure on
\* record for it and goes on down the tiers; a series it then returns is a
\* later adapter's, under the later adapter's tag.
C8_RaisingAdapterIsSurvived ==
    \A t \in Threads : \A i \in 1..Len(trace[t]) :
        trace[t][i].out = "raises" =>
            /\ failures[trace[t][i].src].count >= 1
            /\ pc[t] \in {"tier", "interp", "pop"}
            /\ res[t].via = "adapter" =>
                   /\ i < Len(trace[t])
                   /\ res[t].src = LastOf(trace[t]).src
                   /\ res[t].src # trace[t][i].src

\* C8 witness: an adapter raised and a later adapter's series is about to be
\* returned.
C8_LaterAdapterAnswersWitness ==
    \E t \in Threads :
        /\ pc[t] = "pop"
        /\ res[t].via = "adapter"
        /\ \E i \in 1..Len(trace[t]) : trace[t][i].out = "raises"

\* C9: a fetch in which the provider fails transiently at every attempt
\* leaves the source's failure count higher than it was.
C9_TransientFailureIsRecorded ==
    [][\A t \in Threads :
          LET src == TierOrder[idx[t]]
          IN  (/\ pc[t] = "tier"
               /\ ~IsOpen(failures, src)
               /\ TryTierWith(t, [a \in 1..MaxAttempts |-> "transient"], TRUE))
              => failures'[src].count > failures[src].count]_vars

C11_WaiterReturnsTheCreatorsPair ==
    \A u \in Threads :
        (pc[u] = "woke" /\ sig[u]) => CacheGet(resultCache) = owed[u]

\* C12: a source that failed is not out for good: once the cooldown of its
\* last failure has passed, and no tier has supplied a series for the key,
\* a call made for the key goes on to the providers.
C12_FailedSourceIsTriedAgain ==
    \A t \in Threads : \A src \in Sources :
        (/\ \A u \in Threads : pc[u] = "idle"
         /\ failures[src].count > 0
         /\ failures[src].age >= Cooldown
         /\ resultCache \in {"absent", "interpolated"})
        => ENABLED (Call(t) /\ pc'[t] = "register")

C14_RowsCarryTheirAdaptersTag ==
    /\ \A tag \in Tags : db[tag] \subseteq {tag}
    /\ db["interpolated"] = {}

C16_NoIncrementLost ==
    [][\A t \in Threads :
          ExceptWrite(t) =>
              failures'[TierOrder[idx[t]]].count =
                  failures[TierOrder[idx[t]]].count + 1]_vars

\* C17: a call is answered from the persistent cache only when the cached
\* rows are complete and fresh: no cache lookup that finds the rows stale
\* or ending early ends the call with them.
C17_OnlyFreshCompleteHits ==
    [][\A t \in Threads : \A stale \in BOOLEAN, cond \in Conditions, ok \in BOOLEAN :
          (CacheLookupWith(t, stale, cond, ok) /\ pc'[t] = "pop") => ~stale]_vars

\* C18: a read that finds the cached rows complete and stale leaves them
\* fresh, so that the same read made right after finds them fresh.
C18_StaleReadLeavesRowsFresh ==
    [][\A w \in Workers :
          (CacheRead(w) /\ store'[w].outcome = "stale") => IsCacheFresh(table')]_vars

RowsUnique == \A r1, r2 \in table : r1.date = r2.date => r1 = r2

\* C19: the table never holds two rows of one key, and a store that commits
\* leaves for each key of its batch one row with its price and its `now`;
\* when no other worker has changed the row meanwhile, the `now` of a row it
\* updated is not older than the verification the row had.
C19_OneRowPerKeyUpserted ==
    [][/\ RowsUnique'
       /\ \A w \in Workers :
            (StoreCommit(w) /\ store'[w].outcome = "committed") =>
                /\ \A d \in store[w].ins \cup store[w].upd :
                      RowsOf(table', d) =
                          {[date |-> d, price |-> w, age |-> store[w].since]}
                /\ ~store[w].raced =>
                      \A d \in store[w].upd : \A r \in RowsOf(table, d) :
                          store[w].since <= r.age]_vars

\* C19 witness: both workers have stored and committed a price for the
\* same key, b after a; the table holds the one row, with b's price.
C19_StoredTwiceWitness ==
    /\ store["a"].outcome = "committed"
    /\ store["b"].outcome = "committed"
    /\ \E r \in table : table = {r} /\ r.price = "b"

\* C20: no store transaction fails: none ends in a rollback.
C20_NoStoreRolledBack ==
    \A w \in Workers : store[w].outcome # "rolled_back"

\* C21: when the store of a fetched series does not commit, the persistent
\* cache is as it was before, and the call ends with the series under the
\* tag of the adapter that fetched it.
C21_FailedStoreKeepsCacheAndResult ==
    [][\A t \in Threads : \A conds \in [1..MaxAttempts -> Conditions] :
          (TryTierWith(t, conds, FALSE) /\ pc'[t] = "pop") =>
              /\ db' = db
              /\ res'[t] = [via |-> "adapter", src |-> TierOrder[idx[t]]]]_vars

\* C21 witness: a call is about to return the series an adapter fetched,
\* and the persistent cache has no row under that adapter's tag.
C21_ReturnedButNotStoredWitness ==
    \E t \in Threads :
        /\ pc[t] = "pop"
        /\ res[t].via = "adapter"
        /\ db[res[t].src] = {}

\* The band of a row dated within the last 30 days is violated; a row that
\* was never verified violates every band.
BandViolated(r) ==
    /\ r.ageDays <= 30
    /\ \/ ~r.verified
       \/ r.ageDays = 0 /\ r.hours > 1
       \/ r.ageDays \in 1..7 /\ r.hours > 24
       \/ r.ageDays \in 8..30 /\ r.hours > 168

C23_UnverifiedRowMakesStale ==
    (ret # <<>> /\ \E r \in args[1] : ~r.verified) => ret[1] = FALSE

DatesOf(df) == {df[i] : i \in 1..Len(df)}

\* C24: _is_cache_complete is true exactly when the earliest cached date is
\* on or before start and the latest cached date is on or after end.
C24_CompleteExactlyWhenRangeCovered ==
    ret # <<>> =>
        (ret[1] = TRUE <=>
            /\ \E d \in DatesOf(args[1]) : d <= args[2]
            /\ \E d \in DatesOf(args[1]) : d >= args[3])

\* C24 witness: rows cached from day 2 to day 3 have been found incomplete
\* for the request [1, 3].
C24_OneDayShortWitness ==
    /\ args = <<(<<2, 3>>), 1, 3>>
    /\ ret = <<FALSE>>

\* C25: a read that finds cached rows that do not cover the requested range
\* fetches nothing but the range from the day after the last cached date to
\* the requested end.
C25_OnlyTheForwardGapIsFetched ==
    (ret # <<>> /\ ret[1].found = "incomplete" /\ ret[1].fetch # <<>>) =>
        LET inWindow == args[1] \cap args[2]..args[3]
            lastCached == CHOOSE d \in inWindow : \A e \in inWindow : e <= d
        IN  ret[1].fetch = <<lastCached + 1, args[3]>>

\* C26: for a window longer than 365 days the first fetch is the priority
\* window [end - 365, end]; every later fetch is a chunk of at most 365
\* days within [start, priority start - 1] that ends on the day before the
\* fetch made before it begins.
C26_PriorityThenAdjacentChunks ==
    (args.end - args.start > PriorityFetchDays /\ Len(args.fetched) > 0) =>
        /\ args.fetched[1].from = args.end - PriorityFetchDays
        /\ args.fetched[1].to = args.end
        /\ \A i \in 2..Len(args.fetched) :
              /\ args.fetched[i].to - args.fetched[i].from + 1 <= BackfillChunkDays
              /\ args.fetched[i].from >= args.start
              /\ args.fetched[i].to <= args.end - PriorityFetchDays - 1
              /\ args.fetched[i].from <= args.fetched[i].to
              /\ args.fetched[i].to = args.fetched[i - 1].from - 1

\* C26 witness: the call has ended after the priority window and two
\* chunks, the second one shorter than 365 days and beginning at the start.
C26_TwoChunksWitness ==
    /\ args.at = "done"
    /\ Len(args.fetched) = 3
    /\ args.fetched[3].from = args.start
    /\ args.fetched[3].to - args.fetched[3].from + 1 < BackfillChunkDays

C29_WindowWithinRequestedWindow ==
    \A i \in 1..Len(args.used) :
        /\ args.used[i].from >= args.start
        /\ args.tx # <<>> => args.used[i].from >= args.tx[1]
        /\ args.used[i].to <= args.end

\* C30: with at least two transactions of positive quantity the result is
\* tagged 'interpolated' and has one price for every day of the window, and
\* on every day between two transactions that follow one another the price
\* lies on the straight line between their prices (amount / quantity).
C30_LinearBetweenTransactionPrices ==
    (ret # <<>> /\ Cardinality(KnownPoints(args[1])) >= 2) =>
        /\ ret[1].source = "interpolated"
        /\ DOMAIN ret[1].prices[1] = ret[1].window[1]..ret[1].window[2]
        /\ \A a \in KnownPoints(args[1]), b \in KnownPoints(args[1]) :
              (/\ a.date < b.date
               /\ ~ \E c \in KnownPoints(args[1]) : a.date < c.date /\ c.date < b.date) =>
                  \A k \in (a.date..b.date) \cap DOMAIN ret[1].prices[1] :
                      LET v == ret[1].prices[1][k] IN
                      /\ v[2] # 0
                      /\ v[1] * (a.quantity * b.quantity * (b.date - a.date))
                           = v[2] * (a.amount * b.quantity * (b.date - k)
                                       + b.amount * a.quantity * (k - a.date))

\* C31: with two or more known points interpolate gives every day of
\* [start, end] a defined price: the known price on a known date, the
\* point of the straight line between the two known points around a day
\* that lies between two known dates, wherever those dates lie, and the
\* nearest known price before the earliest and after the latest known date.
C31_EveryDayFromTheBracketingPoints ==
    LET known == {tx \in args[1] : tx.quantity > 0} IN
    (ret # <<>> /\ Cardinality(known) >= 2) =>
        /\ ret[1] # <<>>
        /\ DOMAIN ret[1][1] = args[2]..args[3]
        /\ \A k \in DOMAIN ret[1][1] :
             LET v == ret[1][1][k]
                 before == {tx \in known : tx.date <= k}
                 after == {tx \in known : tx.date >= k}
             IN  /\ v[2] # 0
                 /\ \A a \in before, b \in after :
                      (/\ \A o \in before : o.date <= a.date
                       /\ \A o \in after : o.date >= b.date) =>
                          IF a.date = b.date
                            THEN v[1] * a.quantity = v[2] * a.amount
                            ELSE v[1] * (a.quantity * b.quantity * (b.date - a.date))
                                   = v[2] * (a.amount * b.quantity * (b.date - k)
                                               + b.amount * a.quantity * (k - a.date))
                 /\ \A a \in known :
                      (before = {} /\ \A o \in known : o.date >= a.date) =>
                          v[1] * a.quantity = v[2] * a.amount
                 /\ \A b \in known :
                      (after = {} /\ \A o \in known : o.date <= b.date) =>
                          v[1] * b.quantity = v[2] * b.amount

\* C32: interpolate returns None when no transaction has a positive
\* quantity, and with exactly one such transaction the series that has
\* that transaction's price (amount / quantity) on every day of
\* [start, end].
C32_NoneOrConstantSeries ==
    LET known == {tx \in args[1] : tx.quantity > 0} IN
    ret # <<>> =>
        /\ known = {} => ret[1] = <<>>
        /\ \A tx \in known :
             known = {tx} =>
                 /\ ret[1] # <<>>
                 /\ DOMAIN ret[1][1] = args[2]..args[3]
                 /\ \A k \in args[2]..args[3] :
                      ret[1][1][k][1] * tx.quantity = ret[1][1][k][2] * tx.amount

\* C32 witness: a purchase of two units for 110 and a transaction without
\* quantity give the price 110 / 2 on each of the days 1 to 3.
C32_ConstantSeriesWitness ==
    /\ args = <<{[date |-> 2, amount |-> 110, quantity |-> 2],
                 [date |-> 3, amount |-> 100, quantity |-> 0]}, 1, 3>>
    /\ ret = <<(<<[k \in 1..3 |-> <<110, 2>>]>>)>>

\* C33: the FX rate applied to the price point of day d is the rate of the
\* latest day of [start, d] for which the FX series has one, and a point
\* with no such day has no rate.
C33_RateOfTheLatestEarlierDay ==
    ret # <<>> =>
        \A d \in DOMAIN ret[1] :
            LET have == {x \in args.start..d : x \in DOMAIN args.rates} IN
            IF have = {} THEN ret[1][d] = <<>>
            ELSE \E x \in have :
                   /\ \A y \in have : y <= x
                   /\ ret[1][d] = <<args.rates[x]>>

\* C34: the series returned with the tag 'yahoo' has exactly the rows the
\* Yahoo adapter returned: the same days with the same prices.
C34_YahooRowsReturnedAsFetched ==
    ret # <<>> =>
        /\ ret[1].source = "yahoo"
        /\ DOMAIN ret[1].prices = DOMAIN args[4]
        /\ \A d \in DOMAIN args[4] : ret[1].prices[d] = <<args[4][d], 1>>

\* C35: resolve_alias gives a code with ".T" appended and the code itself
\* the same symbol, whatever the code and the name.
C35_SuffixedAndPlainCodeAgree ==
    ret # <<>> => ret[1].suffixed[1] = ret[1].plain[1]

\* C36: called with a symbol that matches nothing and with the name of an
\* entry of the name table, with or without a half-width or full-width
\* space put into it, resolve_alias returns the symbol of that entry.
C36_TableNameResolvesToItsSymbol ==
    (ret # <<>> /\ args[1] \in {Code7203, <<>>}) =>
        \A i \in 1..Len(NAME_ALIASES) :
            RemoveSpaces(args[2]) = RemoveSpaces(NAME_ALIASES[i][1]) =>
                ret[1][1] = NAME_ALIASES[i][2]

\* C37: resolve_alias returns for every symbol and name, and when neither
\* the symbol table nor the name table matches, what it returns is the
\* symbol and the name as they were given.
C37_UnmatchedInputReturnedUnchanged ==
    ret # <<>> =>
        /\ Len(ret[1]) = 2
        /\ ret[1][2] = args[2]
        /\ (/\ \A i \in 1..Len(ALIAS_MAP) :
                  /\ ALIAS_MAP[i][1] # RemoveSpaces(args[1])
                  /\ ALIAS_MAP[i][1] \o DotT # RemoveSpaces(args[1])
            /\ \A i \in 1..Len(NAME_ALIASES) :
                  ~ Contains(RemoveSpaces(args[2]), NAME_ALIASES[i][1])) =>
               ret[1] = <<args[1], args[2]>>

\* C37 witness: the code 7203 written with a full-width space and a name
\* of no table come back as they were given.
C37_ReturnedAsGivenWitness ==
    /\ args = <<InsertAt(Code7203, 2, WideSpace), <<"T", "o", "y", "o", "t", "a">> >>
    /\ ret = <<args>>

\* C38: the series fetch returns has dates in strictly ascending order, all
\* within [start, end], and prices greater than 0; the price of a date is
\* the one of the first record read for that date.
C38_UniqueAscendingInRangePositive ==
    (ret # <<>> /\ ret[1] # <<>>) =>
        LET df == ret[1][1] IN
        /\ \A i \in 1..(Len(df) - 1) : df[i].date < df[i + 1].date
        /\ \A i \in 1..Len(df) :
             /\ df[i].date >= args[2]
             /\ df[i].date <= args[3]
             /\ df[i].price > 0
             /\ \E k \in 1..Len(args[1]) :
                  /\ args[1][k] = df[i]
                  /\ \A j \in 1..(k - 1) :
                       args[1][j].date = df[i].date => args[1][j].price <= 0

\* C38 witness: day 2 is listed twice, with 101 and then with 100, and the
\* series has the single row of day 2 with 101.
C38_FirstOccurrenceKeptWitness ==
    /\ args[1] = <<[date |-> 2, price |-> 101], [date |-> 2, price |-> 100]>>
    /\ ret = <<(<<(<<[date |-> 2, price |-> 101]>>)>>)>>

\* C39: the pagination loop ends; a further page is read only after a
\* click on an enabled next control that changed the page, and never more
\* than 50 pages are read.
C39_PaginationTerminates ==
    /\ <>(args.at = "done")
    /\ [](args.at = "next" => args.page <= MaxPagesRead)
    /\ [][(args.at = "next" /\ args'.at = "page") => args'.control = "changed"]_vars

\* C39 witness: the loop has ended after 50 pages, the last click having
\* changed the page.
C39_FiftyPagesWitness ==
    /\ args.at = "done"
    /\ args.control = "changed"
    /\ ret = <<MaxPagesRead>>

\* C40: an in-flight entry is there only while the call that registered it
\* is running: once that call has ended, by return or by exception, the
\* entry is gone from the in-flight map.
C40_NoEntryWithoutItsCall ==
    inflight.present =>
        \E t \in Threads : pc[t] \in {"cache", "tier", "except", "interp", "pop"}

====
